---- MODULE Spec2Model ----
(***************************************************************************)
(* Routing engine of intento3.py: construir_grafo, Dijkstra,               *)
(* reconstruir_camino and procesar_envios, as a state machine.             *)
(*                                                                         *)
(* Weights are non-negative integers (the data model's "non-negative real  *)
(* weight"; the example's 5.0, 10.0, 3.0, 1.5, 9.0 are kept in units of    *)
(* 0.5).  float('inf') is the sentinel Inf, compared through Menor.  None  *)
(* is the string "None" where a node is expected, and the empty tuple      *)
(* where an optional value (distance, path) is expected: Algun(x) = <<x>>. *)
(*                                                                         *)
(* Spec       every edge list of up to MaxRutas edges over A, B, C with    *)
(*            weights 0 and 1, then one request between any two places     *)
(* SpecJusto  the same edge lists, one request per source, under fairness  *)
(* SpecLote   the example's edge list, every batch of up to MaxEnvios      *)
(*            requests                                                     *)
(* SpecDet    the example's routes under every weight assignment, one      *)
(*            request, resolved twice                                      *)
(* SpecCamino reconstruir_camino alone, on every predecessor map           *)
(***************************************************************************)
EXTENDS Integers, Sequences, FiniteSets, Bags, TLC

VARIABLES
    rutas,       \* the edge list handed to construir_grafo
    envios,      \* the request list handed to procesar_envios
    pc,          \* position of the program
    k,           \* construir_grafo: index of the next edge of rutas
    nodos,       \* construir_grafo: the set nodos
    grafo,       \* node -> ordered adjacency, a sequence of <<destino, peso>>
    e,           \* procesar_envios: index of the current request
    dist,        \* Dijkstra: dist
    prev,        \* Dijkstra: prev
    heap,        \* Dijkstra: the heap, a bag of <<distance, node>>
    u,           \* Dijkstra: the node popped last
    d_u,         \* Dijkstra: the distance popped last
    j,           \* Dijkstra: index into grafo[u].items()
    camino,      \* procesar_envios: the path reconstructed last
    resultados,  \* procesar_envios: the result list
    veces,       \* history: node -> times its edges were relaxed in this Dijkstra run
    descartes,   \* history: stale entries discarded in this Dijkstra run
    mapas,       \* history: the <<dist, prev>> Dijkstra returned for each request
    corrida,     \* 1 in the first resolution, 2 in a repeated one
    primera      \* history: <<resultados, mapas>> of the first resolution

vars == <<rutas, envios, pc, k, nodos, grafo, e, dist, prev, heap, u, d_u, j,
          camino, resultados, veces, descartes, mapas, corrida, primera>>

-----------------------------------------------------------------------------
(* Bounds of the model *)

MaxRutas == 3         \* edges in an edge list
MaxEnvios == 2        \* requests in a batch
MaxPesoEjemplo == 1   \* greatest weight tried on the example's routes
NumNodosPrev == 3     \* nodes of the predecessor maps tried on reconstruir_camino

-----------------------------------------------------------------------------
(* Values *)

Nombres == <<"A", "B", "C", "D", "E", "F">>
Nodos == {"A", "B", "C"}
Desconocido == "Z"
Pesos == {0, 1}

None == "None"
Inf == -1
Ninguno == <<>>
Algun(x) == <<x>>

\* a < b on floats where Inf stands for float('inf')
Menor(a, b) == a # Inf /\ (b = Inf \/ a < b)

\* Python's order on the node names used here
Pos(n) == IF n = Desconocido THEN Len(Nombres) + 1
          ELSE CHOOSE p \in 1..Len(Nombres) : Nombres[p] = n
StrMenor(a, b) == Pos(a) < Pos(b)

\* an order on the distances alone, which leaves equal distances unordered
EntradaMenorSoloDistancia(x, y) == x[1] < y[1]

\* tuple comparison (d1, n1) < (d2, n2)
EntradaMenor(x, y) == x[1] < y[1] \/ (x[1] = y[1] /\ StrMenor(x[2], y[2]))

\* the entries heappop may return: those no other entry precedes
Minimas(h) == {x \in BagToSet(h) : \A y \in BagToSet(h) : ~EntradaMenor(y, x)}

heappush(h, x) == h (+) SetToBag({x})
heappopResto(h, x) == h (-) SetToBag({x})

SeqsHasta(S, n) == UNION {[1..m -> S] : m \in 0..n}

-----------------------------------------------------------------------------
(* construir_grafo *)

\* an assignment that keeps the weight a pair already has
PonerSiFalta(ady, destino, peso) ==
    IF \E p \in 1..Len(ady) : ady[p][1] = destino
    THEN ady
    ELSE Append(ady, <<destino, peso>>)

\* dict d[destino] = peso on an insertion-ordered dict kept as a sequence of pairs
Poner(ady, destino, peso) ==
    IF \E p \in 1..Len(ady) : ady[p][1] = destino
    THEN [p \in 1..Len(ady) |-> IF ady[p][1] = destino THEN <<destino, peso>> ELSE ady[p]]
    ELSE Append(ady, <<destino, peso>>)

\* g.setdefault(n, {})
SetDefault(g, n) == IF n \in DOMAIN g THEN g ELSE g @@ (n :> <<>>)

Claves(ady) == {ady[p][1] : p \in 1..Len(ady)}
Peso(ady, destino) == ady[CHOOSE p \in 1..Len(ady) : ady[p][1] = destino][2]

AgregarRuta ==
    /\ pc = "construir"
    /\ k <= Len(rutas)
    /\ LET origen == rutas[k][1]
           destino == rutas[k][2]
           distancia == rutas[k][3]
           g == SetDefault(grafo, origen)
       IN /\ nodos' = nodos \cup {origen, destino}
          /\ grafo' = [g EXCEPT ![origen] = Poner(g[origen], destino, distancia)]
    /\ k' = k + 1
    /\ UNCHANGED <<rutas, envios, pc, e, dist, prev, heap, u, d_u, j, camino,
                   resultados, veces, descartes, mapas, corrida, primera>>

CerrarNodos ==
    /\ pc = "construir"
    /\ k > Len(rutas)
    /\ grafo' = [n \in nodos |-> IF n \in DOMAIN grafo THEN grafo[n] ELSE <<>>]
    /\ pc' = "construido"
    /\ UNCHANGED <<rutas, envios, k, nodos, e, dist, prev, heap, u, d_u, j, camino,
                   resultados, veces, descartes, mapas, corrida, primera>>

-----------------------------------------------------------------------------
(* Dijkstra *)

\* a test d_u >= dist[u], which discards the fresh entries too
ObsoletaOIgual(d, registrada) == ~Menor(d, registrada)

\* line 76: d_u > dist[u]
Obsoleta(d, registrada) == Menor(registrada, d)

\* a test that accepts a node's first distance only
MejoraSoloNueva(alt, actual) == actual = Inf

\* a test alt <= dist[v]
MejoraOIgual(alt, actual) == ~Menor(actual, alt)

\* line 80: alt < dist[v]
Mejora(alt, actual) == Menor(alt, actual)

\* lines 67-73, entered from the loop head of procesar_envios (lines 110-111)
IniciarEnvio ==
    /\ pc = "envios"
    /\ e <= Len(envios)
    /\ LET origen == envios[e][2]
           inicial == [n \in DOMAIN grafo |-> Inf]
       IN IF origen \notin DOMAIN grafo
          THEN /\ dist' = inicial
               /\ heap' = EmptyBag
               /\ pc' = "retorno"
          ELSE /\ dist' = [inicial EXCEPT ![origen] = 0]
               /\ heap' = SetToBag({<<0, origen>>})
               /\ pc' = "heap"
    /\ prev' = [n \in DOMAIN grafo |-> None]
    /\ veces' = [n \in DOMAIN grafo |-> 0]
    /\ descartes' = 0
    /\ UNCHANGED <<rutas, envios, k, nodos, grafo, e, u, d_u, j, camino,
                   resultados, mapas, corrida, primera>>

\* lines 74-77: heappop and the stale-entry test
Pop ==
    /\ pc = "heap"
    /\ heap # EmptyBag
    /\ \E x \in Minimas(heap) :
          /\ heap' = heappopResto(heap, x)
          /\ d_u' = x[1]
          /\ u' = x[2]
          /\ IF Obsoleta(x[1], dist[x[2]])
             THEN /\ descartes' = descartes + 1
                  /\ UNCHANGED <<pc, j, veces>>
             ELSE /\ pc' = "relajar"
                  /\ j' = 1
                  /\ veces' = [veces EXCEPT ![x[2]] = @ + 1]
                  /\ UNCHANGED descartes
    /\ UNCHANGED <<rutas, envios, k, nodos, grafo, e, dist, prev, camino,
                   resultados, mapas, corrida, primera>>

\* lines 78-83: one iteration of the loop over grafo[u].items()
Relajar ==
    /\ pc = "relajar"
    /\ j <= Len(grafo[u])
    /\ LET v == grafo[u][j][1]
           peso == grafo[u][j][2]
           alt == d_u + peso
       IN IF Mejora(alt, dist[v])
          THEN /\ dist' = [dist EXCEPT ![v] = alt]
               /\ prev' = [prev EXCEPT ![v] = u]
               /\ heap' = heappush(heap, <<alt, v>>)
          ELSE UNCHANGED <<dist, prev, heap>>
    /\ j' = j + 1
    /\ UNCHANGED <<rutas, envios, pc, k, nodos, grafo, e, u, d_u, camino,
                   resultados, veces, descartes, mapas, corrida, primera>>

\* the loop over grafo[u].items() is exhausted: back to line 74
FinRelajar ==
    /\ pc = "relajar"
    /\ j > Len(grafo[u])
    /\ pc' = "heap"
    /\ UNCHANGED <<rutas, envios, k, nodos, grafo, e, dist, prev, heap, u, d_u, j,
                   camino, resultados, veces, descartes, mapas, corrida, primera>>

\* line 74 with an empty heap, line 84
DijkstraRetorna ==
    /\ pc = "heap"
    /\ heap = EmptyBag
    /\ pc' = "retorno"
    /\ UNCHANGED <<rutas, envios, k, nodos, grafo, e, dist, prev, heap, u, d_u, j,
                   camino, resultados, veces, descartes, mapas, corrida, primera>>

-----------------------------------------------------------------------------
(* reconstruir_camino *)

RECURSIVE Caminar(_, _, _, _)
RECURSIVE CaminarAlReves(_, _, _, _)

\* a walk that appends each node instead of inserting it at the front
CaminarAlReves(p, origen, nodo, hecho) ==
    IF nodo = None THEN hecho
    ELSE LET c == Append(hecho, nodo)
         IN IF nodo = origen THEN c ELSE CaminarAlReves(p, origen, p[nodo], c)

\* lines 95-99: the loop, from the node u with the nodes collected so far
Caminar(p, origen, nodo, hecho) ==
    IF nodo = None THEN hecho
    ELSE LET c == <<nodo>> \o hecho
         IN IF nodo = origen THEN c ELSE Caminar(p, origen, p[nodo], c)

\* a return without the test of the first node
EntregarSiempre(c, origen) == c

\* lines 100-102
Entregar(c, origen) == IF c # <<>> /\ c[1] = origen THEN c ELSE <<>>

reconstruir_camino(p, origen, destino) ==
    IF destino \notin DOMAIN p THEN <<>>
    ELSE Entregar(Caminar(p, origen, destino, <<>>), origen)

-----------------------------------------------------------------------------
(* procesar_envios *)

MsgDesconocido(id, origen, destino) ==
    <<"Envio", id, origen, destino, "Ruta no encontrada (origen desconocido)">>
MsgNoEncontrada(id, origen, destino) ==
    <<"Envio", id, origen, destino, "Ruta no encontrada">>
MsgRuta(id, origen, destino, d, c) ==
    <<"Envio", id, origen, destino, "distancia_minima", d, "ruta", c>>

Resultado(id, origen, destino, d, c, msg) ==
    [id |-> id, origen |-> origen, destino |-> destino,
     distancia |-> d, camino |-> c, msg |-> msg]

\* an insertion at the front of the list
AnotarAlFrente(rs, r) == <<r>> \o rs

\* resultados.append(r), lines 115, 121 and 127
Anotar(rs, r) == Append(rs, r)

\* lines 108-109: the call procesar_envios(grafo, es).  The edge list and the
\* locals of construir_grafo are not in its scope.
Llamar(E) ==
    /\ pc = "construido"
    /\ \E es \in E : envios' = es
    /\ pc' = "envios"
    /\ e' = 1
    /\ resultados' = <<>>
    /\ mapas' = <<>>
    /\ rutas' = <<>>
    /\ k' = 0
    /\ nodos' = {}
    /\ UNCHANGED <<grafo, dist, prev, heap, u, d_u, j, camino, veces, descartes,
                   corrida, primera>>

\* one request between any two of the graph's nodes and an unknown place
ProcesarEnvios ==
    Llamar({<<<<1, o, d>>>> : o \in DOMAIN grafo \cup {Desconocido},
                             d \in DOMAIN grafo \cup {Desconocido}})

\* one request per source, the graph's nodes and an unknown place
ProcesarOrigen ==
    Llamar({<<<<1, o, o>>>> : o \in DOMAIN grafo \cup {Desconocido}})

IdsEnvio == {1, 2}
LugaresLote == {"A", "D", Desconocido}

\* a batch of requests among three places of the example
ProcesarLote ==
    Llamar(SeqsHasta(IdsEnvio \X LugaresLote \X LugaresLote, MaxEnvios))

\* a test of the key alone
SinRutaSoloAusente(d, destino) == destino \notin DOMAIN d

\* line 118
SinRuta(d, destino) == destino \notin DOMAIN d \/ d[destino] = Inf

\* lines 112-131, with the dist and prev Dijkstra returned
Resolver ==
    /\ pc = "retorno"
    /\ LET id == envios[e][1]
           origen == envios[e][2]
           destino == envios[e][3]
       IN IF origen \notin DOMAIN grafo
          THEN /\ resultados' = Anotar(resultados,
                     Resultado(id, origen, destino, Ninguno, Ninguno,
                               MsgDesconocido(id, origen, destino)))
               /\ UNCHANGED camino
          ELSE IF SinRuta(dist, destino)
          THEN /\ resultados' = Anotar(resultados,
                     Resultado(id, origen, destino, Ninguno, Ninguno,
                               MsgNoEncontrada(id, origen, destino)))
               /\ UNCHANGED camino
          ELSE LET c == reconstruir_camino(prev, origen, destino)
               IN /\ camino' = c
                  /\ resultados' = Anotar(resultados,
                        Resultado(id, origen, destino, Algun(dist[destino]), Algun(c),
                                  MsgRuta(id, origen, destino, dist[destino], c)))
    /\ mapas' = Append(mapas, <<dist, prev>>)
    /\ e' = e + 1
    /\ pc' = "envios"
    /\ UNCHANGED <<rutas, envios, k, nodos, grafo, dist, prev, heap, u, d_u, j,
                   veces, descartes, corrida, primera>>

\* line 132
Retornar ==
    /\ pc = "envios"
    /\ e > Len(envios)
    /\ pc' = "fin"
    /\ UNCHANGED <<rutas, envios, k, nodos, grafo, e, dist, prev, heap, u, d_u, j,
                   camino, resultados, veces, descartes, mapas, corrida, primera>>

\* a second call procesar_envios(grafo, envios) with the same arguments
Repetir ==
    /\ pc = "fin"
    /\ corrida = 1
    /\ primera' = <<resultados, mapas>>
    /\ corrida' = 2
    /\ pc' = "envios"
    /\ e' = 1
    /\ resultados' = <<>>
    /\ mapas' = <<>>
    /\ UNCHANGED <<rutas, envios, k, nodos, grafo, dist, prev, heap, u, d_u, j,
                   camino, veces, descartes>>

-----------------------------------------------------------------------------
(* Inputs and specifications *)

Aristas == Nodos \X Nodos \X Pesos

\* the edge list of the example program (line 175), in units of 0.5
RutasEjemplo ==
    << <<"A", "B", 10>>, <<"A", "C", 20>>, <<"B", "C", 6>>,
       <<"C", "D", 3>>, <<"B", "D", 18>> >>

\* the example's routes with other weights
RutasEjemploCon(w) == [p \in 1..Len(RutasEjemplo) |->
                          <<RutasEjemplo[p][1], RutasEjemplo[p][2], w[p]>>]

PesosEjemplo == 0..MaxPesoEjemplo

InitCon(R) ==
    /\ rutas \in R
    /\ envios = <<>>
    /\ pc = "construir"
    /\ k = 1
    /\ nodos = {}
    /\ grafo = <<>>
    /\ e = 0
    /\ dist = <<>>
    /\ prev = <<>>
    /\ heap = EmptyBag
    /\ u = None
    /\ d_u = 0
    /\ j = 0
    /\ camino = <<>>
    /\ resultados = <<>>
    /\ veces = <<>>
    /\ descartes = 0
    /\ mapas = <<>>
    /\ corrida = 1
    /\ primera = <<>>

\* any edge list of up to MaxRutas edges over Nodos
Init == InitCon(SeqsHasta(Aristas, MaxRutas))

Dijkstra ==
    \/ IniciarEnvio
    \/ Pop
    \/ Relajar
    \/ FinRelajar
    \/ DijkstraRetorna

Next ==
    \/ AgregarRuta
    \/ CerrarNodos
    \/ ProcesarEnvios
    \/ Dijkstra
    \/ Resolver
    \/ Retornar

Spec == Init /\ [][Next]_vars

NextJusto ==
    \/ AgregarRuta
    \/ CerrarNodos
    \/ ProcesarOrigen
    \/ Dijkstra
    \/ Resolver
    \/ Retornar

\* Dijkstra from every source; the program runs to completion: it is
\* sequential and never waits
SpecJusto == Init /\ [][NextJusto]_vars /\ WF_vars(NextJusto)

\* the example's graph, any batch of requests
InitLote == InitCon({RutasEjemplo})

NextLote ==
    \/ AgregarRuta
    \/ CerrarNodos
    \/ ProcesarLote
    \/ Dijkstra
    \/ Resolver
    \/ Retornar

SpecLote == InitLote /\ [][NextLote]_vars

\* the example's routes under any weights, one request, resolved twice
InitDet == InitCon({RutasEjemploCon(w) : w \in [1..Len(RutasEjemplo) -> PesosEjemplo]})

NextDet == Next \/ Repetir

SpecDet == InitDet /\ [][NextDet]_vars

-----------------------------------------------------------------------------
(* reconstruir_camino on its own, over any predecessor map *)

RECURSIVE Cadena(_, _, _)
\* the nodes met from nodo along the predecessor links, at most n of them
Cadena(p, nodo, n) ==
    IF n = 0 \/ nodo = None THEN <<>>
    ELSE <<nodo>> \o Cadena(p, p[nodo], n - 1)

Elementos(c) == {c[p] : p \in 1..Len(c)}

\* the walk of reconstruir_camino ends: the chain meets origen or None
CadenaFinita(p, origen, destino) ==
    IF destino \notin DOMAIN p THEN TRUE
    ELSE LET c == Cadena(p, destino, Cardinality(DOMAIN p) + 1)
         IN IF origen \in Elementos(c) THEN TRUE ELSE Len(c) <= Cardinality(DOMAIN p)

NodosPrev == {Nombres[n] : n \in 1..NumNodosPrev}

MapasPrev == UNION {[K -> K \cup {None}] : K \in SUBSET NodosPrev}

InitCamino ==
    /\ rutas = <<>>
    /\ prev \in MapasPrev
    /\ envios \in {<<<<1, o, d>>>> : o \in NodosPrev \cup {Desconocido},
                                     d \in NodosPrev \cup {Desconocido}}
    /\ CadenaFinita(prev, envios[1][2], envios[1][3])
    /\ pc = "prueba"
    /\ k = 1
    /\ nodos = {}
    /\ grafo = <<>>
    /\ e = 1
    /\ dist = <<>>
    /\ heap = EmptyBag
    /\ u = None
    /\ d_u = 0
    /\ j = 0
    /\ camino = <<>>
    /\ resultados = <<>>
    /\ veces = <<>>
    /\ descartes = 0
    /\ mapas = <<>>
    /\ corrida = 1
    /\ primera = <<>>

\* camino = reconstruir_camino(prev, origen, destino)
ProbarCamino ==
    /\ pc = "prueba"
    /\ camino' = reconstruir_camino(prev, envios[e][2], envios[e][3])
    /\ pc' = "probado"
    /\ UNCHANGED <<rutas, envios, k, nodos, grafo, e, dist, prev, heap, u, d_u, j,
                   resultados, veces, descartes, mapas, corrida, primera>>

SpecCamino == InitCamino /\ [][ProbarCamino]_vars

-----------------------------------------------------------------------------
(* What the properties speak of *)

Origen == envios[e][2]

\* Dijkstra is running or has returned, for a source that is a key of the graph
EnDijkstra == pc \in {"heap", "relajar", "retorno"} /\ Origen \in DOMAIN grafo
DijkstraHecho == pc = "retorno" /\ Origen \in DOMAIN grafo

HayArista(g, a, b) == b \in Claves(g[a])

RECURSIVE Recorridos(_, _, _)
\* the directed walks from o of at most n nodes: o alone, and every walk of
\* at most n - 1 nodes extended by an edge out of its last node
Recorridos(g, o, n) ==
    IF n <= 1 THEN {<<o>>}
    ELSE LET cortos == Recorridos(g, o, n - 1)
         IN cortos \cup UNION {{Append(c, b) : b \in Claves(g[c[Len(c)]])} : c \in cortos}

RECURSIVE Largo(_, _)
\* the total weight of a walk
Largo(g, c) ==
    IF Len(c) <= 1 THEN 0
    ELSE Largo(g, SubSeq(c, 1, Len(c) - 1)) + Peso(g[c[Len(c) - 1]], c[Len(c)])

\* walks of up to one node more than the graph has: every simple path, and cycles
Caminos(g, o, v) ==
    {c \in Recorridos(g, o, Cardinality(DOMAIN g) + 1) : c[Len(c)] = v}

\* the least total weight over the walks from o to v, Inf when there is none
DistMin(g, o, v) ==
    LET largos == {Largo(g, c) : c \in Caminos(g, o, v)}
    IN IF largos = {} THEN Inf
       ELSE CHOOSE m \in largos : \A n \in largos : m <= n

\* a result that carries a distance and a path
Resuelto(r) == r.distancia # Ninguno /\ r.camino # Ninguno

\* the nodes the edge list names
RutasNodos == {rutas[p][1] : p \in 1..Len(rutas)} \cup {rutas[p][2] : p \in 1..Len(rutas)}

-----------------------------------------------------------------------------
(* C1: when Dijkstra returns for a source that is a key of the graph, dist[v] *)
(* is the least total weight over the directed paths from the source to v,   *)
(* and it is Inf exactly when there is no such path.                         *)
C1_DistanciaMinima ==
    DijkstraHecho =>
        \A v \in DOMAIN grafo :
            /\ dist[v] = DistMin(grafo, Origen, v)
            /\ (dist[v] = Inf) <=> (Caminos(grafo, Origen, v) = {})

\* Dijkstra returned after discarding a stale entry: a node first reached
\* directly from the source ended up reached through another node
C1_Testigo ==
    /\ DijkstraHecho
    /\ descartes > 0
    /\ \E v \in DOMAIN grafo : prev[v] \notin {None, Origen}

(* C2: when Dijkstra returns, no edge u -> v of weight w into a node v       *)
(* reachable from the source improves on dist[v]: dist[v] <= dist[u] + w.    *)
C2_Optimalidad ==
    DijkstraHecho =>
        \A a \in DOMAIN grafo : \A p \in 1..Len(grafo[a]) :
            LET v == grafo[a][p][1]
                w == grafo[a][p][2]
            IN Caminos(grafo, Origen, v) # {} =>
                  /\ dist[v] # Inf
                  /\ dist[a] # Inf => dist[v] <= dist[a] + w

\* Dijkstra returned on a graph with a tight edge, a slack edge and an edge
\* out of an unreached node
C2_Testigo ==
    /\ DijkstraHecho
    /\ \E a \in DOMAIN grafo : \E p \in 1..Len(grafo[a]) :
          dist[a] # Inf /\ dist[grafo[a][p][1]] < dist[a] + grafo[a][p][2]
    /\ \E a \in DOMAIN grafo : \E p \in 1..Len(grafo[a]) :
          dist[a] = Inf /\ dist[grafo[a][p][1]] # Inf

(* C3: in every result with a distance and a path, the path is not empty,    *)
(* starts at the request's origin, ends at its destination, follows edges of *)
(* the graph, and the weights of those edges add up to the distance.         *)
C3_RutaValida ==
    \A p \in 1..Len(resultados) :
        LET r == resultados[p]
        IN Resuelto(r) =>
              LET c == r.camino[1]
              IN /\ Len(c) >= 1
                 /\ c[1] = r.origen
                 /\ c[Len(c)] = r.destino
                 /\ \A q \in 1..(Len(c) - 1) : HayArista(grafo, c[q], c[q + 1])
                 /\ Largo(grafo, c) = r.distancia[1]

\* a request resolved by a path of two edges, after a stale entry was discarded
C3_Testigo ==
    /\ pc = "fin"
    /\ Len(resultados) = 1
    /\ Resuelto(resultados[1])
    /\ Len(resultados[1].camino[1]) = 3
    /\ descartes > 0

(* C4: each request gets exactly one outcome: unknown origin (no distance,   *)
(* no path) when the origin is not a key of the graph; otherwise no route    *)
(* (no distance, no path) when the destination is not in the graph or no     *)
(* path leads to it; otherwise the distance Dijkstra returned for the        *)
(* destination, which is the least one, and the reconstructed path.          *)
C4_Clasificacion ==
    \A p \in 1..Len(resultados) :
        LET r == resultados[p]
            id == envios[p][1]
            o == envios[p][2]
            d == envios[p][3]
        IN IF o \notin DOMAIN grafo
           THEN r = Resultado(id, o, d, Ninguno, Ninguno, MsgDesconocido(id, o, d))
           ELSE IF d \notin DOMAIN grafo
           THEN r = Resultado(id, o, d, Ninguno, Ninguno, MsgNoEncontrada(id, o, d))
           ELSE IF Caminos(grafo, o, d) = {}
           THEN r = Resultado(id, o, d, Ninguno, Ninguno, MsgNoEncontrada(id, o, d))
           ELSE /\ r.distancia = Algun(mapas[p][1][d])
                /\ r.distancia = Algun(DistMin(grafo, o, d))
                /\ r.camino = Algun(reconstruir_camino(mapas[p][2], o, d))
                /\ r.msg = MsgRuta(id, o, d, r.distancia[1], r.camino[1])
                /\ <<r.id, r.origen, r.destino>> = <<id, o, d>>

\* a known origin and a known destination that no path joins
C4_Testigo ==
    /\ pc = "fin"
    /\ Len(resultados) = 1
    /\ envios[1][2] \in DOMAIN grafo
    /\ envios[1][3] \in DOMAIN grafo
    /\ resultados[1].msg = MsgNoEncontrada(envios[1][1], envios[1][2], envios[1][3])

(* C5: the results are as many as the requests handled so far, the p-th       *)
(* result carries the id, origin and destination of the p-th request, and at *)
(* the end every request has its result, whatever the outcome of the ones    *)
(* before it.                                                                *)
C5_Orden ==
    /\ pc \in {"envios", "heap", "relajar", "retorno", "fin"} =>
          /\ Len(resultados) = e - 1
          /\ \A p \in 1..Len(resultados) :
                <<resultados[p].id, resultados[p].origen, resultados[p].destino>>
                    = envios[p]
    /\ pc = "fin" => Len(resultados) = Len(envios)

\* two requests: the first has an unknown origin, the second is resolved
C5_Testigo ==
    /\ pc = "fin"
    /\ Len(envios) = 2
    /\ envios[1] # envios[2]
    /\ resultados[1].msg[5] = "Ruta no encontrada (origen desconocido)"
    /\ Resuelto(resultados[2])

(* C6: the graph construir_grafo returns has as keys exactly the nodes of the *)
(* edge list, holds grafo[o][d] exactly for the pairs (o, d) of the list,    *)
(* once each, and gives each pair the weight of its last occurrence.         *)
C6_Grafo ==
    pc = "construido" =>
        /\ DOMAIN grafo = RutasNodos
        /\ \A o \in DOMAIN grafo :
              /\ Cardinality(Claves(grafo[o])) = Len(grafo[o])
              /\ \A d \in Claves(grafo[o]) :
                    \E p \in 1..Len(rutas) : rutas[p][1] = o /\ rutas[p][2] = d
        /\ \A p \in 1..Len(rutas) :
              LET o == rutas[p][1]
                  d == rutas[p][2]
              IN /\ d \in Claves(grafo[o])
                 /\ (\A q \in (p + 1)..Len(rutas) : <<rutas[q][1], rutas[q][2]>> # <<o, d>>)
                       => Peso(grafo[o], d) = rutas[p][3]

\* a pair listed twice with two weights, and a node with no outgoing edge
C6_Testigo ==
    /\ pc = "construido"
    /\ \E p, q \in 1..Len(rutas) :
          /\ p < q
          /\ <<rutas[p][1], rutas[p][2]>> = <<rutas[q][1], rutas[q][2]>>
          /\ rutas[p][3] # rutas[q][3]
    /\ \E n \in DOMAIN grafo : grafo[n] = <<>>

(* C7: a second resolution of the same requests on the same graph yields the  *)
(* same results and the same distance and predecessor maps as the first, and *)
(* heappop never has two entries to choose from.                             *)
C7_Determinismo ==
    /\ (pc = "heap" /\ heap # EmptyBag) => Cardinality(Minimas(heap)) = 1
    /\ (corrida = 2 /\ pc \in {"envios", "heap", "relajar", "retorno", "fin"}) =>
          \A p \in 1..Len(resultados) :
              /\ resultados[p] = primera[1][p]
              /\ mapas[p] = primera[2][p]
    /\ (corrida = 2 /\ pc = "fin") => <<resultados, mapas>> = primera

\* the second resolution ended on a request that two paths of least weight serve
C7_Testigo ==
    /\ corrida = 2
    /\ pc = "fin"
    /\ Resuelto(resultados[1])
    /\ Cardinality({c \in Caminos(grafo, envios[1][2], envios[1][3]) :
                       Largo(grafo, c) = resultados[1].distancia[1]}) >= 2

(* C8: from Dijkstra's initialisation to its return, the source keeps         *)
(* distance 0 and predecessor None.                                          *)
C8_OrigenCero ==
    EnDijkstra => dist[Origen] = 0 /\ prev[Origen] = None

\* an edge of weight 0 into the source has just been relaxed
C8_Testigo ==
    /\ EnDijkstra
    /\ pc = "relajar"
    /\ j > 1
    /\ grafo[u][j - 1] = <<Origen, 0>>

(* C9: on a predecessor map whose chain from destino meets origen or None,    *)
(* reconstruir_camino returns the empty sequence when destino is not a key   *)
(* or the chain does not meet origen, and otherwise the sequence from origen *)
(* to destino in which each node is the predecessor of the next and origen   *)
(* occurs only first.                                                        *)
C9_Camino ==
    pc = "probado" =>
        LET o == envios[1][2]
            d == envios[1][3]
        IN IF d \notin DOMAIN prev THEN camino = <<>>
           ELSE IF o \notin Elementos(Cadena(prev, d, Cardinality(DOMAIN prev) + 1))
           THEN camino = <<>>
           ELSE /\ Len(camino) >= 1
                /\ camino[1] = o
                /\ camino[Len(camino)] = d
                /\ \A p \in 1..(Len(camino) - 1) : prev[camino[p + 1]] = camino[p]
                /\ \A p \in 2..Len(camino) : camino[p] # o

\* a path of three nodes whose origin has a predecessor of its own
C9_Testigo ==
    /\ pc = "probado"
    /\ Len(camino) = 3
    /\ prev[envios[1][2]] # None

(* C10: Dijkstra empties its heap and returns, and the program ends; an entry *)
(* popped with a distance greater than the one recorded for its node is      *)
(* discarded without relaxing an edge; an entry is pushed only when dist[v]  *)
(* strictly decreases, to that new distance; and the edges out of a node are *)
(* relaxed at most once in a run.                                            *)
C10_Terminacion ==
    /\ <>(pc = "fin")
    /\ [](EnDijkstra => /\ \A n \in DOMAIN grafo : veces[n] <= 1
                        /\ pc = "relajar" => d_u = dist[u])
    /\ [][/\ (pc = "heap" /\ pc' # "retorno" /\ Menor(dist[u'], d_u')) =>
                (pc' = "heap" /\ dist' = dist /\ prev' = prev /\ veces' = veces)
          /\ pc = "relajar" =>
                \A x \in BagToSet(heap') :
                    CopiesIn(x, heap') > CopiesIn(x, heap) =>
                        /\ Menor(x[1], dist[x[2]])
                        /\ dist'[x[2]] = x[1]
                        /\ prev'[x[2]] = u]_vars

\* the program ended after a Dijkstra run that discarded a stale entry
C10_Testigo ==
    /\ pc = "fin"
    /\ descartes > 0
    /\ \E n \in DOMAIN grafo : veces[n] = 1 /\ Len(grafo[n]) > 1

====
